---- MODULE Spec2Model ----
(***************************************************************************)
(* Balance sheet analyzer: BalanceSheet (balance_sheet.py), the ratio      *)
(* engine FinancialAnalyzer (analyzer.py), ReportGenerator                 *)
(* (report_generator.py) and the driver analyze_balance_sheet (main.py).   *)
(*                                                                         *)
(* Python values are records [k, n, d, s]:                                 *)
(*   k = "float"  a number n/d in lowest terms, or +infinity as 1/0;       *)
(*   k = "str"    the string s;                                            *)
(*   k = "bool"   n = 1 for True, 0 for False;                             *)
(*   k = "exc"    a raised exception, s its class name.                    *)
(*   k = "double" a binary64 value [k, neg, m, e], see below.              *)
(* In Spec, SpecRaw, SpecInterp and SpecInsights amounts are exact         *)
(* multiples of 0.005 and ratios exact fractions: on the small amounts     *)
(* used there the rounding of binary floating point does not change any    *)
(* comparison with a threshold.  SpecBinary64 computes with the rounding   *)
(* of binary64, on amounts written as decimal literals.                    *)
(***************************************************************************)
EXTENDS Integers, Sequences, FiniteSets, TLC

VARIABLES
    pc,        \* "start" | "constructed": position of the caller
    bs,        \* the BalanceSheet object's 17 attributes
    analyzer,  \* FinancialAnalyzer.bs: "none" | "bs" (a reference to the sheet)
    ret        \* the last call: [op, arg, val, written]

vars == <<pc, bs, analyzer, ret>>

----------------------------------------------------------------------------
(* Bounds *)

\* A non-zero line item is 1 .. MaxAmt half-cents (or one of the special
\* values of Values below).
MaxAmt == 1
\* The values handed to interpret_ratio on its own are n/20 for n in
\* -1 .. MaxGrid (every threshold below 3.05 and both its neighbours), the
\* neighbours of the two working-capital thresholds, and +infinity.
MaxGrid == 61

\* The sheets whose amounts are binary64 values have liabilities and equity
\* of 0 .. MaxCents hundredths (0.00, 0.01, ...).
MaxCents == 5

----------------------------------------------------------------------------
(* Python values *)

RECURSIVE Gcd(_, _)
Gcd(a, b) == IF b = 0 THEN a ELSE Gcd(b, a % b)

\* The number n/d (d # 0), kept in lowest terms with a positive denominator,
\* so that equal numbers are equal records.
Num(n, d) ==
    LET g == Gcd(IF n < 0 THEN -n ELSE n, IF d < 0 THEN -d ELSE d)
        sign == IF d < 0 THEN -1 ELSE 1
    IN  [n |-> sign * (n \div g), d |-> sign * (d \div g), k |-> "float", s |-> ""]
Str(s) == [n |-> 0, d |-> 1, k |-> "str", s |-> s]
Bool(b) == [n |-> IF b THEN 1 ELSE 0, d |-> 1, k |-> "bool", s |-> ""]
Exc(name) == [n |-> 0, d |-> 1, k |-> "exc", s |-> name]
None == [n |-> 0, d |-> 1, k |-> "None", s |-> ""]

\* float('inf')
Inf == [n |-> 1, d |-> 0, k |-> "float", s |-> ""]

\* An amount of n half-cents (n * 0.005).
Amount(n) == Num(n, 200)

IsNum(a) == a.k = "float"
IsStr(a) == a.k = "str"
Raised(a) == a.k = "exc"

\* a + b: numbers add, strings concatenate, anything else is a TypeError;
\* an exception raised while evaluating an operand propagates (left first).
Add(a, b) ==
    IF Raised(a) THEN a
    ELSE IF Raised(b) THEN b
    ELSE IF IsNum(a) /\ IsNum(b) THEN
        IF a.d = b.d THEN Num(a.n + b.n, a.d)
        ELSE Num(a.n * b.d + b.n * a.d, a.d * b.d)
    ELSE IF IsStr(a) /\ IsStr(b) THEN Str(a.s \o b.s)
    ELSE Exc("TypeError")

\* a - b: defined on numbers only.
Sub(a, b) ==
    IF Raised(a) THEN a
    ELSE IF Raised(b) THEN b
    ELSE IF IsNum(a) /\ IsNum(b) THEN
        IF a.d = b.d THEN Num(a.n - b.n, a.d)
        ELSE Num(a.n * b.d - b.n * a.d, a.d * b.d)
    ELSE Exc("TypeError")

\* a / b: true division; a zero divisor raises ZeroDivisionError.
Div(a, b) ==
    IF Raised(a) THEN a
    ELSE IF Raised(b) THEN b
    ELSE IF IsNum(a) /\ IsNum(b) THEN
        IF b.n = 0 THEN Exc("ZeroDivisionError")
        ELSE IF a.d = b.d THEN Num(a.n, b.n)
        ELSE Num(a.n * b.d, a.d * b.n)
    ELSE Exc("TypeError")

\* abs(a)
Abs(a) ==
    IF Raised(a) THEN a
    ELSE IF IsNum(a) THEN Num(IF a.n < 0 THEN -a.n ELSE a.n, a.d)
    ELSE Exc("TypeError")

\* a < b on two numbers (cross-multiplied; +infinity is below nothing).
LtNum(a, b) == a.n * b.d < b.n * a.d

\* a < b as Python evaluates it: a bool, or TypeError when an operand is a str.
Lt(a, b) ==
    IF Raised(a) THEN a
    ELSE IF Raised(b) THEN b
    ELSE IF IsNum(a) /\ IsNum(b) THEN Bool(LtNum(a, b))
    ELSE Exc("TypeError")

\* a > b
Gt(a, b) == Lt(b, a)

\* a == 0: never raises; a str is not equal to 0.
EqZero(a) ==
    IF Raised(a) THEN a
    ELSE Bool(IsNum(a) /\ a.d > 0 /\ a.n = 0)

IsTrue(a) == a.k = "bool" /\ a.n = 1

----------------------------------------------------------------------------
(* balance_sheet.py: BalanceSheet *)

CurrentAssetFields == {"cash", "accounts_receivable", "inventory", "other_current_assets"}
LongTermAssetFields == {"property_plant_equipment", "intangible_assets", "other_long_term_assets"}
CurrentLiabilityFields == {"accounts_payable", "short_term_debt", "other_current_liabilities"}
LongTermLiabilityFields == {"long_term_debt", "other_long_term_liabilities"}
EquityFields == {"common_stock", "retained_earnings", "other_equity"}
NumericFields ==
    CurrentAssetFields \cup LongTermAssetFields \cup CurrentLiabilityFields
        \cup LongTermLiabilityFields \cup EquityFields
MetadataFields == {"company_name", "date"}

\* Mutant: the last part is left out of the sum.
total_current_assets_without_other(b) ==
    Add(Add(b.cash, b.accounts_receivable), b.inventory)

total_current_assets(b) ==
    Add(Add(Add(b.cash, b.accounts_receivable), b.inventory), b.other_current_assets)

total_long_term_assets(b) ==
    Add(Add(b.property_plant_equipment, b.intangible_assets), b.other_long_term_assets)

total_assets(b) == Add(total_current_assets(b), total_long_term_assets(b))

total_current_liabilities(b) ==
    Add(Add(b.accounts_payable, b.short_term_debt), b.other_current_liabilities)

total_long_term_liabilities(b) == Add(b.long_term_debt, b.other_long_term_liabilities)

\* Mutant: the long-term liabilities are left out.
total_liabilities_current_only(b) == total_current_liabilities(b)

total_liabilities(b) == Add(total_current_liabilities(b), total_long_term_liabilities(b))

total_equity(b) == Add(Add(b.common_stock, b.retained_earnings), b.other_equity)

\* Mutant: the tolerance is inclusive (<= 0.01).
verify_balance_inclusive(b) ==
    LET total_liabilities_equity == Add(total_liabilities(b), total_equity(b))
        off == Abs(Sub(total_assets(b), total_liabilities_equity))
    IN  IF Raised(off) THEN off
        ELSE IF IsNum(off) THEN Bool(~LtNum(Num(1, 100), off))
        ELSE Exc("TypeError")

\* abs(total_assets - (total_liabilities + total_equity)) < 0.01
verify_balance(b) ==
    LET total_liabilities_equity == Add(total_liabilities(b), total_equity(b))
    IN  Lt(Abs(Sub(total_assets(b), total_liabilities_equity)), Num(1, 100))

----------------------------------------------------------------------------
(* analyzer.py: FinancialAnalyzer; b is the sheet self.bs refers to *)

\* Mutant: the zero check is missing.
current_ratio_unguarded(b) ==
    Div(total_current_assets(b), total_current_liabilities(b))

\* Mutant: a zero denominator is answered with the error code -1.
current_ratio_error_code(b) ==
    LET zero == EqZero(total_current_liabilities(b))
    IN  IF Raised(zero) THEN zero
        ELSE IF IsTrue(zero) THEN Num(-1, 1)
        ELSE Div(total_current_assets(b), total_current_liabilities(b))

current_ratio(b) ==
    LET zero == EqZero(total_current_liabilities(b))
    IN  IF Raised(zero) THEN zero
        ELSE IF IsTrue(zero) THEN Inf
        ELSE Div(total_current_assets(b), total_current_liabilities(b))

quick_ratio(b) ==
    LET zero == EqZero(total_current_liabilities(b))
        quick_assets == Sub(total_current_assets(b), b.inventory)
    IN  IF Raised(zero) THEN zero
        ELSE IF IsTrue(zero) THEN Inf
        ELSE Div(quick_assets, total_current_liabilities(b))

cash_ratio(b) ==
    LET zero == EqZero(total_current_liabilities(b))
    IN  IF Raised(zero) THEN zero
        ELSE IF IsTrue(zero) THEN Inf
        ELSE Div(b.cash, total_current_liabilities(b))

\* Mutant: zero equity gives 0, as the asset-based ratios do.
debt_to_equity_ratio_zero(b) ==
    LET zero == EqZero(total_equity(b))
    IN  IF Raised(zero) THEN zero
        ELSE IF IsTrue(zero) THEN Num(0, 1)
        ELSE Div(total_liabilities(b), total_equity(b))

debt_to_equity_ratio(b) ==
    LET zero == EqZero(total_equity(b))
    IN  IF Raised(zero) THEN zero
        ELSE IF IsTrue(zero) THEN Inf
        ELSE Div(total_liabilities(b), total_equity(b))

\* Mutant: zero assets give +infinity, as the liability-based ratios do.
debt_to_assets_ratio_inf(b) ==
    LET zero == EqZero(total_assets(b))
    IN  IF Raised(zero) THEN zero
        ELSE IF IsTrue(zero) THEN Inf
        ELSE Div(total_liabilities(b), total_assets(b))

debt_to_assets_ratio(b) ==
    LET zero == EqZero(total_assets(b))
    IN  IF Raised(zero) THEN zero
        ELSE IF IsTrue(zero) THEN Num(0, 1)
        ELSE Div(total_liabilities(b), total_assets(b))

\* Mutant: equity is set against the liabilities, not the assets.
equity_ratio_to_debt(b) ==
    LET zero == EqZero(total_assets(b))
    IN  IF Raised(zero) THEN zero
        ELSE IF IsTrue(zero) THEN Num(0, 1)
        ELSE Div(total_equity(b), total_liabilities(b))

equity_ratio(b) ==
    LET zero == EqZero(total_assets(b))
    IN  IF Raised(zero) THEN zero
        ELSE IF IsTrue(zero) THEN Num(0, 1)
        ELSE Div(total_equity(b), total_assets(b))

\* Mutant: working capital taken over all assets and all liabilities.
working_capital_of_totals(b) == Sub(total_assets(b), total_liabilities(b))

working_capital(b) == Sub(total_current_assets(b), total_current_liabilities(b))

long_term_debt_ratio(b) ==
    LET zero == EqZero(total_assets(b))
    IN  IF Raised(zero) THEN zero
        ELSE IF IsTrue(zero) THEN Num(0, 1)
        ELSE Div(total_long_term_liabilities(b), total_assets(b))

\* A dict literal: the entries are evaluated in order, the first exception
\* raised by one of them propagates, otherwise the dict keeps insertion order.
Dict(items) ==
    LET bad == {i \in DOMAIN items : Raised(items[i].value)}
    IN  IF bad = {} THEN [k |-> "dict", items |-> items]
        ELSE items[CHOOSE i \in bad : \A j \in bad : i <= j].value

Item(name, value) == [name |-> name, value |-> value]

\* d.get(key, default)
DictGet(d, key, default) ==
    IF \E i \in DOMAIN d.items : d.items[i].name = key
    THEN d.items[CHOOSE i \in DOMAIN d.items : d.items[i].name = key].value
    ELSE default

\* Mutant: the quick-ratio entry is a copy of the current-ratio entry.
get_all_ratios_copied(b) ==
    Dict(<< Item("Current Ratio", current_ratio(b)),
            Item("Quick Ratio", current_ratio(b)),
            Item("Cash Ratio", cash_ratio(b)),
            Item("Debt to Equity Ratio", debt_to_equity_ratio(b)),
            Item("Debt to Assets Ratio", debt_to_assets_ratio(b)),
            Item("Equity Ratio", equity_ratio(b)),
            Item("Working Capital", working_capital(b)),
            Item("Long-term Debt Ratio", long_term_debt_ratio(b)) >>)

get_all_ratios(b) ==
    Dict(<< Item("Current Ratio", current_ratio(b)),
            Item("Quick Ratio", quick_ratio(b)),
            Item("Cash Ratio", cash_ratio(b)),
            Item("Debt to Equity Ratio", debt_to_equity_ratio(b)),
            Item("Debt to Assets Ratio", debt_to_assets_ratio(b)),
            Item("Equity Ratio", equity_ratio(b)),
            Item("Working Capital", working_capital(b)),
            Item("Long-term Debt Ratio", long_term_debt_ratio(b)) >>)

\* "value < n/d" as the condition of an if: true, false, or raising.
Below(value, n, d) == IsTrue(Lt(value, Num(n, d)))

\* Mutant: the first boundary is inclusive (value <= 1 is Poor).
_interpret_current_ratio_inclusive(value) ==
    IF Raised(Lt(value, Num(1, 1))) THEN Lt(value, Num(1, 1))
    ELSE IF ~IsTrue(Gt(value, Num(1, 1)))
         THEN Str("Poor - May struggle to meet short-term obligations")
    ELSE IF Below(value, 3, 2) THEN Str("Below Average - Limited liquidity cushion")
    ELSE IF Below(value, 2, 1) THEN Str("Good - Adequate liquidity")
    ELSE IF Below(value, 3, 1) THEN Str("Excellent - Strong liquidity position")
    ELSE Str("Very High - May indicate inefficient use of assets")

_interpret_current_ratio(value) ==
    IF Raised(Lt(value, Num(1, 1))) THEN Lt(value, Num(1, 1))
    ELSE IF Below(value, 1, 1) THEN Str("Poor - May struggle to meet short-term obligations")
    ELSE IF Below(value, 3, 2) THEN Str("Below Average - Limited liquidity cushion")
    ELSE IF Below(value, 2, 1) THEN Str("Good - Adequate liquidity")
    ELSE IF Below(value, 3, 1) THEN Str("Excellent - Strong liquidity position")
    ELSE Str("Very High - May indicate inefficient use of assets")

_interpret_quick_ratio(value) ==
    IF Raised(Lt(value, Num(1, 2))) THEN Lt(value, Num(1, 2))
    ELSE IF Below(value, 1, 2) THEN Str("Poor - Liquidity concerns without inventory")
    ELSE IF Below(value, 1, 1) THEN Str("Below Average - Some liquidity risk")
    ELSE IF Below(value, 3, 2) THEN Str("Good - Solid liquidity")
    ELSE Str("Excellent - Very strong liquidity")

_interpret_cash_ratio(value) ==
    IF Raised(Lt(value, Num(1, 5))) THEN Lt(value, Num(1, 5))
    ELSE IF Below(value, 1, 5) THEN Str("Low - Limited immediate cash availability")
    ELSE IF Below(value, 1, 2) THEN Str("Moderate - Reasonable cash position")
    ELSE Str("High - Strong cash reserves")

_interpret_debt_to_equity(value) ==
    IF Raised(Lt(value, Num(1, 2))) THEN Lt(value, Num(1, 2))
    ELSE IF Below(value, 1, 2) THEN Str("Conservative - Low leverage, equity-financed")
    ELSE IF Below(value, 1, 1) THEN Str("Moderate - Balanced leverage")
    ELSE IF Below(value, 2, 1) THEN Str("High - Significant debt leverage")
    ELSE Str("Very High - Heavy reliance on debt financing")

_interpret_debt_to_assets(value) ==
    IF Raised(Lt(value, Num(3, 10))) THEN Lt(value, Num(3, 10))
    ELSE IF Below(value, 3, 10) THEN Str("Low - Conservative debt levels")
    ELSE IF Below(value, 1, 2) THEN Str("Moderate - Balanced capital structure")
    ELSE IF Below(value, 7, 10) THEN Str("High - Significant debt burden")
    ELSE Str("Very High - Heavy debt load")

_interpret_equity_ratio(value) ==
    IF Raised(Lt(value, Num(3, 10))) THEN Lt(value, Num(3, 10))
    ELSE IF Below(value, 3, 10) THEN Str("Low - Heavy reliance on debt")
    ELSE IF Below(value, 1, 2) THEN Str("Moderate - Balanced financing")
    ELSE IF Below(value, 7, 10) THEN Str("Good - Strong equity base")
    ELSE Str("Excellent - Conservative financing")

_interpret_working_capital(value) ==
    IF Raised(Lt(value, Num(0, 1))) THEN Lt(value, Num(0, 1))
    ELSE IF Below(value, 0, 1) THEN Str("Negative - Short-term financial stress")
    ELSE IF Below(value, 100000, 1) THEN Str("Low - Limited working capital buffer")
    ELSE IF Below(value, 1000000, 1) THEN Str("Moderate - Adequate working capital")
    ELSE Str("Strong - Healthy working capital position")

_interpret_long_term_debt(value) ==
    IF Raised(Lt(value, Num(1, 5))) THEN Lt(value, Num(1, 5))
    ELSE IF Below(value, 1, 5) THEN Str("Low - Minimal long-term debt")
    ELSE IF Below(value, 2, 5) THEN Str("Moderate - Reasonable long-term debt")
    ELSE Str("High - Significant long-term obligations")

\* Mutant: the table is indexed (interpretations[ratio_name]) instead of
\* looked up with a default.
interpret_ratio_indexed(ratio_name, value) ==
    LET interpretations ==
            Dict(<< Item("Current Ratio", _interpret_current_ratio(value)),
                    Item("Quick Ratio", _interpret_quick_ratio(value)),
                    Item("Cash Ratio", _interpret_cash_ratio(value)),
                    Item("Debt to Equity Ratio", _interpret_debt_to_equity(value)),
                    Item("Debt to Assets Ratio", _interpret_debt_to_assets(value)),
                    Item("Equity Ratio", _interpret_equity_ratio(value)),
                    Item("Working Capital", _interpret_working_capital(value)),
                    Item("Long-term Debt Ratio", _interpret_long_term_debt(value)) >>)
    IN  IF Raised(interpretations) THEN interpretations
        ELSE DictGet(interpretations, ratio_name, Exc("KeyError"))

\* The dict of all eight interpretations is built first (so each interpreter
\* runs on the value, whatever the name), then looked up with a default.
interpret_ratio(ratio_name, value) ==
    LET interpretations ==
            Dict(<< Item("Current Ratio", _interpret_current_ratio(value)),
                    Item("Quick Ratio", _interpret_quick_ratio(value)),
                    Item("Cash Ratio", _interpret_cash_ratio(value)),
                    Item("Debt to Equity Ratio", _interpret_debt_to_equity(value)),
                    Item("Debt to Assets Ratio", _interpret_debt_to_assets(value)),
                    Item("Equity Ratio", _interpret_equity_ratio(value)),
                    Item("Working Capital", _interpret_working_capital(value)),
                    Item("Long-term Debt Ratio", _interpret_long_term_debt(value)) >>)
    IN  IF Raised(interpretations) THEN interpretations
        ELSE DictGet(interpretations, ratio_name, Str("No interpretation available"))

----------------------------------------------------------------------------
(* report_generator.py: ReportGenerator *)

\* One appended line: its literal text and the value interpolated into it.
Line(text, arg) == [text |-> text, arg |-> arg]

\* format(v, ",.2f") / format(v, ".2f"): the rendering of a number is kept
\* symbolic; a str has no such format (ValueError).
Format(v) ==
    IF Raised(v) THEN v
    ELSE IF IsNum(v) THEN [n |-> v.n, d |-> v.d, k |-> "fmt", s |-> ".2f"]
    ELSE Exc("ValueError")

\* ratios[key]
Lookup(ratios, key) == DictGet(ratios, key, Exc("KeyError"))

\* Mutant: the liquidity warning is given up to and including 1
\* (current ratio <= 1).
_generate_insights_inclusive(ratios) ==
    LET cr == Lookup(ratios, "Current Ratio")
        de == Lookup(ratios, "Debt to Equity Ratio")
        wc == Lookup(ratios, "Working Capital")
        qr == Lookup(ratios, "Quick Ratio")
        er == Lookup(ratios, "Equity Ratio")
        liquidity ==
            IF ~IsTrue(Gt(cr, Num(1, 1)))
            THEN << Line("WARNING: Current ratio below 1 indicates potential liquidity issues", None) >>
            ELSE IF IsTrue(Gt(cr, Num(3, 1)))
            THEN << Line("High current ratio may indicate underutilized assets", None) >>
            ELSE << >>
        leverage ==
            IF IsTrue(Gt(de, Num(2, 1)))
            THEN << Line("High debt-to-equity ratio suggests significant financial leverage and risk", None) >>
            ELSE IF IsTrue(Lt(de, Num(1, 2)))
            THEN << Line("Conservative capital structure with low debt levels", None) >>
            ELSE << >>
        capital ==
            IF IsTrue(Lt(wc, Num(0, 1)))
            THEN << Line("CRITICAL: Negative working capital - immediate attention needed", None) >>
            ELSE IF IsTrue(Gt(wc, Num(0, 1)))
            THEN << Line("Positive working capital of $ provides financial cushion", Format(wc)) >>
            ELSE << >>
        quick ==
            IF IsTrue(Lt(qr, Num(1, 1)))
            THEN << Line("Quick ratio below 1 indicates potential challenges meeting short-term obligations", None) >>
            ELSE << >>
        equity ==
            IF IsTrue(Gt(er, Num(7, 10)))
            THEN << Line("Strong equity position provides financial stability", None) >>
            ELSE IF IsTrue(Lt(er, Num(3, 10)))
            THEN << Line("Heavy reliance on debt financing increases financial risk", None) >>
            ELSE << >>
        checks == << Lt(cr, Num(1, 1)), Lt(de, Num(2, 1)), Lt(wc, Num(0, 1)),
                     Lt(qr, Num(1, 1)), Lt(er, Num(7, 10)) >>
        bad == {i \in DOMAIN checks : Raised(checks[i])}
    IN  IF bad # {} THEN checks[CHOOSE i \in bad : \A j \in bad : i <= j]
        ELSE [k |-> "list", items |-> liquidity \o leverage \o capital \o quick \o equity]

\* The comparisons an if/elif chain evaluates, in order, stop at the first
\* that is true; the chain raises when one of those evaluated raises.
_generate_insights(ratios) ==
    LET cr == Lookup(ratios, "Current Ratio")
        de == Lookup(ratios, "Debt to Equity Ratio")
        wc == Lookup(ratios, "Working Capital")
        qr == Lookup(ratios, "Quick Ratio")
        er == Lookup(ratios, "Equity Ratio")
        liquidity ==
            IF IsTrue(Lt(cr, Num(1, 1)))
            THEN << Line("WARNING: Current ratio below 1 indicates potential liquidity issues", None) >>
            ELSE IF IsTrue(Gt(cr, Num(3, 1)))
            THEN << Line("High current ratio may indicate underutilized assets", None) >>
            ELSE << >>
        leverage ==
            IF IsTrue(Gt(de, Num(2, 1)))
            THEN << Line("High debt-to-equity ratio suggests significant financial leverage and risk", None) >>
            ELSE IF IsTrue(Lt(de, Num(1, 2)))
            THEN << Line("Conservative capital structure with low debt levels", None) >>
            ELSE << >>
        capital ==
            IF IsTrue(Lt(wc, Num(0, 1)))
            THEN << Line("CRITICAL: Negative working capital - immediate attention needed", None) >>
            ELSE IF IsTrue(Gt(wc, Num(0, 1)))
            THEN << Line("Positive working capital of $ provides financial cushion", Format(wc)) >>
            ELSE << >>
        quick ==
            IF IsTrue(Lt(qr, Num(1, 1)))
            THEN << Line("Quick ratio below 1 indicates potential challenges meeting short-term obligations", None) >>
            ELSE << >>
        equity ==
            IF IsTrue(Gt(er, Num(7, 10)))
            THEN << Line("Strong equity position provides financial stability", None) >>
            ELSE IF IsTrue(Lt(er, Num(3, 10)))
            THEN << Line("Heavy reliance on debt financing increases financial risk", None) >>
            ELSE << >>
        checks == << Lt(cr, Num(1, 1)), Lt(de, Num(2, 1)), Lt(wc, Num(0, 1)),
                     Lt(qr, Num(1, 1)), Lt(er, Num(7, 10)) >>
        bad == {i \in DOMAIN checks : Raised(checks[i])}
    IN  IF bad # {} THEN checks[CHOOSE i \in bad : \A j \in bad : i <= j]
        ELSE [k |-> "list", items |-> liquidity \o leverage \o capital \o quick \o equity]

\* The two groups of ratio lines of the report, in the order printed.
LiquidityNames == << "Current Ratio", "Quick Ratio", "Cash Ratio", "Working Capital" >>
LeverageNames ==
    << "Debt to Equity Ratio", "Debt to Assets Ratio", "Equity Ratio", "Long-term Debt Ratio" >>

\* The first exception raised by a sequence of evaluations, None when none
\* raises.
FirstRaised(steps) ==
    LET bad == {i \in DOMAIN steps : Raised(steps[i])}
    IN  IF bad = {} THEN None ELSE steps[CHOOSE i \in bad : \A j \in bad : i <= j]

\* What generate_text_report evaluates, in order, before the ratio lines:
\* the seven formatted totals, verify_balance() and get_all_ratios().
ReportSteps(b) ==
    << Format(total_current_assets(b)), Format(total_long_term_assets(b)),
       Format(total_assets(b)), Format(total_current_liabilities(b)),
       Format(total_long_term_liabilities(b)), Format(total_liabilities(b)),
       Format(total_equity(b)), verify_balance(b), get_all_ratios(b) >>

\* The lines appended to the report, given the results of ReportSteps and
\* the insights: two lines per ratio (its value, then its interpretation).
\* The rules, the blank lines and the "Report Generated" time stamp, which
\* is the clock's, are left out.
ReportLines(b, steps, insights) ==
    << Line("BALANCE SHEET FINANCIAL ANALYSIS REPORT", None),
       Line("Company: ", b.company_name),
       Line("Date: ", b.date),
       Line("  Current Assets:           $", steps[1]),
       Line("  Long-term Assets:         $", steps[2]),
       Line("  TOTAL ASSETS:             $", steps[3]),
       Line("  Current Liabilities:      $", steps[4]),
       Line("  Long-term Liabilities:    $", steps[5]),
       Line("  TOTAL LIABILITIES:        $", steps[6]),
       Line("  Total Equity:             $", steps[7]),
       Line("Balance Sheet Status: ",
            Str(IF IsTrue(steps[8]) THEN "BALANCED" ELSE "NOT BALANCED")) >>
    \o [j \in 1..16 |->
          IF j % 2 = 1
          THEN Line((LiquidityNames \o LeverageNames)[(j + 1) \div 2],
                    Format(Lookup(steps[9], (LiquidityNames \o LeverageNames)[(j + 1) \div 2])))
          ELSE Line("    -> ",
                    interpret_ratio((LiquidityNames \o LeverageNames)[(j + 1) \div 2],
                                    Lookup(steps[9],
                                           (LiquidityNames \o LeverageNames)[(j + 1) \div 2])))]
    \o << Line("KEY INSIGHTS", None) >>
    \o [i \in DOMAIN insights.items |->
           Line("  * " \o insights.items[i].text, insights.items[i].arg)]

\* The report as the list of lines joined at the end; an exception raised on
\* the way leaves no report.  steps[9] is the ratio mapping.
ReportOf(b, steps) ==
    IF FirstRaised(steps) # None THEN FirstRaised(steps)
    ELSE [k |-> "report", lines |-> ReportLines(b, steps, _generate_insights(steps[9]))]

generate_text_report(b) == ReportOf(b, ReportSteps(b))

----------------------------------------------------------------------------
(* main.py: analyze_balance_sheet *)

\* What a call wrote to standard output, one entry per print, and the
\* exception that ended it (None when it returned).
Stdout(prints, raised) == [k |-> "stdout", prints |-> prints, raised |-> raised]

\* The prints of lines, in order: a print whose argument raises is not made,
\* nor any after it.
Printed(lines) ==
    LET bad == {i \in DOMAIN lines : Raised(lines[i].arg)}
        first == CHOOSE i \in bad : \A j \in bad : i <= j
    IN  IF bad = {} THEN Stdout(lines, None)
        ELSE Stdout(SubSeq(lines, 1, first - 1), lines[first].arg)

\* The four prints made when the sheet does not balance.
ImbalanceWarning(b) ==
    << Line("WARNING: Balance sheet does not balance!", None),
       Line("Assets: $", Format(total_assets(b))),
       Line("Liabilities + Equity: $", Format(Add(total_liabilities(b), total_equity(b)))),
       Line("", None) >>

\* Mutant: the imbalance is taken as fatal: the function returns after the
\* warning.
analyze_balance_sheet_aborting(b) ==
    IF Raised(verify_balance(b)) THEN Stdout(<< >>, verify_balance(b))
    ELSE IF ~IsTrue(verify_balance(b)) THEN Printed(ImbalanceWarning(b))
    ELSE Printed(<< Line("", generate_text_report(b)) >>)

\* The body of analyze_balance_sheet, balanced being what verify_balance()
\* returned or raised: the warning is printed when it is false; the analyzer
\* and the report generator are then built and the report printed in any case.
AnalyzeGiven(b, balanced) ==
    IF Raised(balanced) THEN Stdout(<< >>, balanced)
    ELSE Printed((IF IsTrue(balanced) THEN << >> ELSE ImbalanceWarning(b))
                    \o << Line("", generate_text_report(b)) >>)

analyze_balance_sheet(b) == AnalyzeGiven(b, verify_balance(b))

----------------------------------------------------------------------------
(* Inputs *)

\* The amounts a caller gives a line item besides zero: small amounts, a
\* whole currency unit for cash, two units owed to suppliers, a deficit for
\* retained earnings.
Values(f) ==
    {Amount(n) : n \in 1..MaxAmt}
        \cup (IF f = "cash" THEN {Amount(200)} ELSE {})
        \cup (IF f = "accounts_payable" THEN {Amount(400)} ELSE {})
        \cup (IF f = "retained_earnings" THEN {Amount(-1)} ELSE {})

\* The same and, when raw, a str: what a JSON file carrying "cash": "x"
\* gives DataIO.load and DataIO.from_dict.
FieldValues(f, raw) == Values(f) \cup (IF raw THEN {Str("x")} ELSE {})

Metadata == [company_name |-> Str("TestCo"), date |-> Str("2025-01-01")]

\* The keyword arguments of a construction: every field present, the fields
\* of g as given and the other line items zero.
Sheet(g) ==
    [f \in NumericFields |-> IF f \in DOMAIN g THEN g[f] ELSE Amount(0)] @@ Metadata

\* The sheets whose non-zero line items are among two fields f1, f2 (one
\* field when f1 = f2).
PairSheets(raw) ==
    UNION { {Sheet(g) : g \in {h \in [{f1, f2} -> FieldValues(f1, raw)
                                          \cup FieldValues(f2, raw) \cup {Amount(0)}] :
                                   \A f \in {f1, f2} :
                                       h[f] \in FieldValues(f, raw) \cup {Amount(0)}}} :
            f1 \in NumericFields, f2 \in NumericFields }

\* test_balance.py: the sheets of test_assets_balance, test_current_assets
\* and test_verify_balance.
TestSheets ==
    { Sheet([cash |-> Num(100, 1), common_stock |-> Num(50, 1),
             retained_earnings |-> Num(50, 1)]),
      Sheet([cash |-> Num(100, 1), accounts_receivable |-> Num(200, 1),
             inventory |-> Num(150, 1), other_current_assets |-> Num(50, 1),
             common_stock |-> Num(300, 1), retained_earnings |-> Num(200, 1)]),
      Sheet([cash |-> Num(1000, 1), common_stock |-> Num(1000, 1)]) }

\* main.py: the sample sheet of main().
SampleSheet ==
    [cash |-> Num(500000, 1), accounts_receivable |-> Num(300000, 1),
     inventory |-> Num(400000, 1), other_current_assets |-> Num(100000, 1),
     property_plant_equipment |-> Num(2000000, 1), intangible_assets |-> Num(500000, 1),
     other_long_term_assets |-> Num(200000, 1),
     accounts_payable |-> Num(250000, 1), short_term_debt |-> Num(200000, 1),
     other_current_liabilities |-> Num(150000, 1),
     long_term_debt |-> Num(1500000, 1), other_long_term_liabilities |-> Num(300000, 1),
     common_stock |-> Num(1000000, 1), retained_earnings |-> Num(500000, 1),
     other_equity |-> Num(100000, 1),
     company_name |-> Str("Sample Corp"), date |-> Str("2024-12-31")]

\* Numeric sheets.
Inputs == PairSheets(FALSE) \cup TestSheets \cup {SampleSheet}

\* Sheets as a file may carry them: a line item may be a str.
RawInputs == PairSheets(TRUE)

RatioNames ==
    { "Current Ratio", "Quick Ratio", "Cash Ratio", "Debt to Equity Ratio",
      "Debt to Assets Ratio", "Equity Ratio", "Working Capital", "Long-term Debt Ratio" }

\* Names a caller may pass that are not keys of the interpretation table
\* (the second is the spec's spelling of the fourth ratio).
OtherNames == { "Gross Margin", "Debt-to-Equity" }

TotalNames ==
    { "total_current_assets", "total_long_term_assets", "total_assets",
      "total_current_liabilities", "total_long_term_liabilities",
      "total_liabilities", "total_equity" }

\* The property `name` of sheet b.
Total(name, b) ==
    CASE name = "total_current_assets" -> total_current_assets(b)
      [] name = "total_long_term_assets" -> total_long_term_assets(b)
      [] name = "total_assets" -> total_assets(b)
      [] name = "total_current_liabilities" -> total_current_liabilities(b)
      [] name = "total_long_term_liabilities" -> total_long_term_liabilities(b)
      [] name = "total_liabilities" -> total_liabilities(b)
      [] name = "total_equity" -> total_equity(b)

\* The ratio method behind the key `name` of get_all_ratios.
Ratio(name, b) ==
    CASE name = "Current Ratio" -> current_ratio(b)
      [] name = "Quick Ratio" -> quick_ratio(b)
      [] name = "Cash Ratio" -> cash_ratio(b)
      [] name = "Debt to Equity Ratio" -> debt_to_equity_ratio(b)
      [] name = "Debt to Assets Ratio" -> debt_to_assets_ratio(b)
      [] name = "Equity Ratio" -> equity_ratio(b)
      [] name = "Working Capital" -> working_capital(b)
      [] name = "Long-term Debt Ratio" -> long_term_debt_ratio(b)

----------------------------------------------------------------------------
(* Operations *)

\* The record of a call.
Ret(op, arg, val) == [arg |-> arg, op |-> op, val |-> val, written |-> FALSE]

\* The record of a call of the analyzer, with history: written tells whether
\* the call before this one was an assignment to a field of the sheet.
RetOfAnalyzer(op, val) ==
    [arg |-> None, op |-> op, val |-> val, written |-> (ret.op = "setattr")]

NoSheet == [f \in NumericFields \cup MetadataFields |-> None]

Init ==
    /\ pc = "start"
    /\ bs = NoSheet
    /\ analyzer = "none"
    /\ ret = Ret("", None, None)

\* BalanceSheet(**data): the generated __init__ stores each argument.
Construct(data) ==
    /\ pc = "start"
    /\ pc' = "constructed"
    /\ bs' = data
    /\ ret' = Ret("BalanceSheet", None, None)
    /\ UNCHANGED analyzer

\* balance_sheet.<f> = v by a caller: the dataclass is not frozen.
SetField(f, v) ==
    /\ pc = "constructed"
    /\ bs[f] # v
    /\ bs' = [bs EXCEPT ![f] = v]
    /\ ret' = Ret("setattr", Str(f), None)
    /\ UNCHANGED <<pc, analyzer>>

\* FinancialAnalyzer(balance_sheet): keeps the reference.
NewAnalyzer ==
    /\ pc = "constructed"
    /\ analyzer = "none"
    /\ analyzer' = "bs"
    /\ ret' = Ret("FinancialAnalyzer", None, None)
    /\ UNCHANGED <<pc, bs>>

ReadTotal(name) ==
    /\ pc = "constructed"
    /\ ret' = Ret(name, None, Total(name, bs))
    /\ UNCHANGED <<pc, bs, analyzer>>

\* Mutant: the check books the difference it finds to other_equity.
VerifyBalance_rebalancing ==
    /\ pc = "constructed"
    /\ ret' = Ret("verify_balance", None, verify_balance(bs))
    /\ bs' = [bs EXCEPT !.other_equity =
                 Sub(total_assets(bs), Add(total_liabilities(bs),
                                           Add(bs.common_stock, bs.retained_earnings)))]
    /\ UNCHANGED <<pc, analyzer>>

VerifyBalance ==
    /\ pc = "constructed"
    /\ ret' = Ret("verify_balance", None, verify_balance(bs))
    /\ UNCHANGED <<pc, bs, analyzer>>

\* Mutant: the analyzer works on a copy of the sheet that misses the
\* assignment made just before the call.
CallRatio_on_copy(name) ==
    /\ analyzer = "bs"
    /\ ret' = RetOfAnalyzer(name,
                 Ratio(name, IF ret.op = "setattr"
                             THEN [bs EXCEPT ![ret.arg.s] =
                                      IF bs[ret.arg.s] = Amount(0) THEN Amount(200)
                                                                 ELSE Amount(0)]
                             ELSE bs))
    /\ UNCHANGED <<pc, bs, analyzer>>

\* analyzer.<ratio method>(): self.bs is the caller's sheet itself.
CallRatio(name) ==
    /\ analyzer = "bs"
    /\ ret' = RetOfAnalyzer(name, Ratio(name, bs))
    /\ UNCHANGED <<pc, bs, analyzer>>

GetAllRatios ==
    /\ analyzer = "bs"
    /\ ret' = RetOfAnalyzer("get_all_ratios", get_all_ratios(bs))
    /\ UNCHANGED <<pc, bs, analyzer>>

InterpretRatio(name, value) ==
    /\ analyzer = "bs"
    /\ ret' = Ret("interpret_ratio", <<name, value>>, interpret_ratio(name, value))
    /\ UNCHANGED <<pc, bs, analyzer>>

GenerateTextReport ==
    /\ analyzer = "bs"
    /\ ret' = Ret("generate_text_report", None, generate_text_report(bs))
    /\ UNCHANGED <<pc, bs, analyzer>>

\* report_gen._generate_insights(ratios)
GenerateInsights(ratios) ==
    /\ analyzer = "bs"
    /\ ret' = Ret("_generate_insights", ratios, _generate_insights(ratios))
    /\ UNCHANGED <<pc, bs, analyzer>>

\* analyze_balance_sheet(balance_sheet): it builds an analyzer and a report
\* generator of its own and returns None; val is what it printed.
AnalyzeBalanceSheet ==
    /\ pc = "constructed"
    /\ ret' = Ret("analyze_balance_sheet", None, analyze_balance_sheet(bs))
    /\ UNCHANGED <<pc, bs, analyzer>>

\* The values a caller holds for sheet b: its ratios (when they were
\* computed without an exception).
Computed(name, b) == IF name \in RatioNames THEN Ratio(name, b) ELSE current_ratio(b)

\* The caller's steps over the sheets I (raw: a line item may be a str).
Step(I, raw) ==
    \/ \E data \in I : Construct(data)
    \/ \E f \in NumericFields : \E v \in FieldValues(f, raw) \cup {Amount(0)} :
          /\ [bs EXCEPT ![f] = v] \in I
          /\ SetField(f, v)
    \/ NewAnalyzer
    \/ \E name \in TotalNames : ReadTotal(name)
    \/ VerifyBalance
    \/ \E name \in RatioNames : CallRatio(name)
    \/ GetAllRatios
    \/ \E name \in RatioNames \cup OtherNames :
          /\ ~Raised(Computed(name, bs))
          /\ InterpretRatio(name, Computed(name, bs))
    \/ GenerateTextReport

\* The same over numeric sheets, with the insights of the sheet's ratios
\* asked for on their own and the driver of main.py.
Next ==
    \/ Step(Inputs, FALSE)
    \/ GenerateInsights(get_all_ratios(bs))
    \/ AnalyzeBalanceSheet

Spec == Init /\ [][Next]_vars

NextRaw == Step(RawInputs, TRUE)

SpecRaw == Init /\ [][NextRaw]_vars

----------------------------------------------------------------------------
(* interpret_ratio as a function of its two arguments *)

InterpValues ==
    {Num(n, 20) : n \in -1..MaxGrid}
        \cup {Num(100000 + i, 1) : i \in -1..1}
        \cup {Num(1000000 + i, 1) : i \in -1..1}
        \cup {Inf}

\* An analyzer over the sample sheet of main().
InitInterp ==
    /\ pc = "constructed"
    /\ bs = SampleSheet
    /\ analyzer = "bs"
    /\ ret = Ret("FinancialAnalyzer", None, None)

NextInterp ==
    \E name \in RatioNames \cup OtherNames : \E value \in InterpValues :
        InterpretRatio(name, value)

SpecInterp == InitInterp /\ [][NextInterp]_vars

----------------------------------------------------------------------------
(* _generate_insights as a function of the ratio mapping *)

\* The values given for each ratio the insights read: its thresholds, a
\* value below the lowest, one above the highest and one between two.
InsightValues(name) ==
    CASE name = "Current Ratio" ->
            {Num(19, 20), Num(1, 1), Num(2, 1), Num(3, 1), Num(61, 20)}
      [] name = "Debt to Equity Ratio" ->
            {Num(9, 20), Num(1, 2), Num(1, 1), Num(2, 1), Num(41, 20)}
      [] name = "Working Capital" -> {Num(-1, 20), Num(0, 1), Num(1, 20)}
      [] name = "Quick Ratio" -> {Num(19, 20), Num(1, 1), Num(21, 20)}
      [] name = "Equity Ratio" ->
            {Num(1, 4), Num(3, 10), Num(1, 2), Num(7, 10), Num(3, 4)}

\* A mapping as get_all_ratios() builds it; the three ratios the insights do
\* not read are fixed.
RatioMapping(cr, qr, de, er, wc) ==
    Dict(<< Item("Current Ratio", cr),
            Item("Quick Ratio", qr),
            Item("Cash Ratio", Num(1, 2)),
            Item("Debt to Equity Ratio", de),
            Item("Debt to Assets Ratio", Num(1, 2)),
            Item("Equity Ratio", er),
            Item("Working Capital", wc),
            Item("Long-term Debt Ratio", Num(1, 5)) >>)

NextInsights ==
    \E cr \in InsightValues("Current Ratio") : \E qr \in InsightValues("Quick Ratio") :
    \E de \in InsightValues("Debt to Equity Ratio") : \E er \in InsightValues("Equity Ratio") :
    \E wc \in InsightValues("Working Capital") :
        GenerateInsights(RatioMapping(cr, qr, de, er, wc))

SpecInsights == InitInterp /\ [][NextInsights]_vars

----------------------------------------------------------------------------
(* binary64: the arithmetic of a Python float *)

\* A double is [k |-> "double", neg, m, e]: the number (-1)^neg * m * 2^e
\* whose 53-bit significand is m[1] * 2^27 + m[2], either normal
\* (2^52 <= m < 2^53) or zero (m = 0, e = 0, neg = 0).  The two limbs keep
\* every intermediate value below 2^31.  With the amounts used here the
\* exponents stay far inside the range of binary64: subnormal results,
\* overflow, -0.0 and nan do not occur.
Limb == 2^27

\* 2^53 and 2^52 as first limbs: m >= 2^53 iff m[1] >= Carry, and m is normal
\* iff Lead <= m[1] < Carry.
Carry == 2^26
Lead == 2^25

BigGe(x, y) == x[1] > y[1] \/ (x[1] = y[1] /\ x[2] >= y[2])
BigAdd(x, y) == << x[1] + y[1] + (x[2] + y[2]) \div Limb, (x[2] + y[2]) % Limb >>
BigSub(x, y) ==
    IF x[2] >= y[2] THEN << x[1] - y[1], x[2] - y[2] >>
    ELSE << x[1] - y[1] - 1, x[2] + Limb - y[2] >>
BigHalf(x) == << x[1] \div 2, (x[2] + (x[1] % 2) * Limb) \div 2 >>
BigOdd(x) == x[2] % 2 = 1

Double(neg, m, e) == [k |-> "double", neg |-> neg, m |-> m, e |-> e]
Zero64 == Double(0, << 0, 0 >>, 0)
IsDouble(a) == a.k = "double"

\* x * 2^e halved until it has 53 bits; g is the last bit shifted out and
\* sticky tells whether anything below it was not zero.
RECURSIVE ShiftRight(_, _, _, _)
ShiftRight(x, e, g, sticky) ==
    IF x[1] >= Carry THEN ShiftRight(BigHalf(x), e + 1, BigOdd(x), sticky \/ g)
    ELSE << x, e, g, sticky >>

\* xe = << x, e >>: x * 2^e (x # 0) doubled until the leading bit is bit 52.
RECURSIVE ShiftLeft(_)
ShiftLeft(xe) ==
    IF xe[1][1] < Lead THEN ShiftLeft(<< BigAdd(xe[1], xe[1]), xe[2] - 1 >>) ELSE xe

\* m * 2^e with m <= 2^53: m = 2^53 is renormalised.
Carried(neg, m, e) ==
    IF m[1] >= Carry THEN Double(neg, << Lead, 0 >>, e + 1) ELSE Double(neg, m, e)

\* r = << x, e, g, sticky >> as ShiftRight leaves it: round to nearest, ties
\* to even.
Nearest(neg, r) ==
    IF r[3] /\ (r[4] \/ BigOdd(r[1])) THEN Carried(neg, BigAdd(r[1], << 0, 1 >>), r[2])
    ELSE Double(neg, r[1], r[2])

Normal(neg, xe) == Double(neg, xe[1], xe[2])

\* The double nearest to (-1)^neg * (x + f) * 2^e, ties to even, where
\* f = 0, or 0 < f < 1 when sticky (x then has more than 53 bits).
Round(neg, x, e, sticky) ==
    IF x = << 0, 0 >> THEN Zero64
    ELSE IF x[1] < Lead THEN Normal(neg, ShiftLeft(<< x, e >>))
    ELSE Nearest(neg, ShiftRight(x, e, FALSE, sticky))

\* float(n) of an int n, |n| < 2^31.
FromInt(n) ==
    LET a == IF n < 0 THEN -n ELSE n
    IN  Round(IF n < 0 THEN 1 ELSE 0, << a \div Limb, a % Limb >>, 0, FALSE)

\* Long division by y: qr = << q, r >> with r < y; i more bits are appended
\* to the quotient q, r is the remainder.
RECURSIVE Quotient(_, _, _)
Quotient(qr, y, i) ==
    IF i = 0 THEN qr
    ELSE LET r2 == BigAdd(qr[2], qr[2])
             q2 == BigAdd(qr[1], qr[1])
         IN  IF BigGe(r2, y)
             THEN Quotient(<< BigAdd(q2, << 0, 1 >>), BigSub(r2, y) >>, y, i - 1)
             ELSE Quotient(<< q2, r2 >>, y, i - 1)

\* a / b on doubles (b # 0): the quotient of the significands to 54 bits,
\* the remainder as sticky, rounded once.
DivDouble(a, b) ==
    IF a.m = << 0, 0 >> THEN Zero64
    ELSE LET t == IF BigGe(a.m, b.m) THEN 53 ELSE 54
             first == IF t = 53 THEN a.m ELSE BigAdd(a.m, a.m)
             qr == Quotient(<< << 0, 1 >>, BigSub(first, b.m) >>, b.m, 53)
         IN  Round((a.neg + b.neg) % 2, qr[1], a.e - b.e - t, qr[2] # << 0, 0 >>)

\* ys = << y, sticky >>: y * 2^(-n) truncated, sticky telling whether a bit
\* that was cut off was set.
RECURSIVE Aligned(_, _)
Aligned(ys, n) ==
    IF n = 0 \/ ys[1] = << 0, 0 >> THEN ys
    ELSE Aligned(<< BigHalf(ys[1]), ys[2] \/ BigOdd(ys[1]) >>, n - 1)

Times4(x) == BigAdd(BigAdd(x, x), BigAdd(x, x))

\* |a| < |b| for two doubles that are not zero.
MagLt(a, b) == a.e < b.e \/ (a.e = b.e /\ ~BigGe(a.m, b.m))

\* big + small with |big| >= |small| > 0, where x is the significand of big
\* with two guard bits and ys that of small aligned to it: the exact sum or
\* difference is rounded once.
AddAligned(big, small, x, ys) ==
    IF big.neg = small.neg THEN Round(big.neg, BigAdd(x, ys[1]), big.e - 2, ys[2])
    ELSE IF ys[2] THEN
        Round(big.neg, BigSub(BigSub(x, ys[1]), << 0, 1 >>), big.e - 2, TRUE)
    ELSE Round(big.neg, BigSub(x, ys[1]), big.e - 2, FALSE)

AddOrdered(big, small) ==
    AddAligned(big, small, Times4(big.m),
               Aligned(<< Times4(small.m), FALSE >>, big.e - small.e))

\* a + b on doubles.
AddDouble(a, b) ==
    IF a.m = << 0, 0 >> THEN b
    ELSE IF b.m = << 0, 0 >> THEN a
    ELSE IF MagLt(a, b) THEN AddOrdered(b, a)
    ELSE AddOrdered(a, b)

NegDouble(a) == IF a.m = << 0, 0 >> THEN a ELSE Double(1 - a.neg, a.m, a.e)
AbsDouble(a) == Double(0, a.m, a.e)

\* a < b on doubles.
LtDouble(a, b) ==
    IF a.m = << 0, 0 >> THEN b.m # << 0, 0 >> /\ b.neg = 0
    ELSE IF b.m = << 0, 0 >> THEN a.neg = 1
    ELSE IF a.neg # b.neg THEN a.neg = 1
    ELSE IF a.neg = 0 THEN MagLt(a, b)
    ELSE MagLt(b, a)

----------------------------------------------------------------------------
(* balance_sheet.py and analyzer.py on floats: the totals and the two      *)
(* shares of the assets with every + and / rounded to binary64; b is a     *)
(* sheet whose line items are doubles                                      *)

total_current_assets64(b) ==
    AddDouble(AddDouble(AddDouble(b.cash, b.accounts_receivable), b.inventory),
              b.other_current_assets)

total_long_term_assets64(b) ==
    AddDouble(AddDouble(b.property_plant_equipment, b.intangible_assets),
              b.other_long_term_assets)

total_assets64(b) == AddDouble(total_current_assets64(b), total_long_term_assets64(b))

total_current_liabilities64(b) ==
    AddDouble(AddDouble(b.accounts_payable, b.short_term_debt), b.other_current_liabilities)

total_long_term_liabilities64(b) ==
    AddDouble(b.long_term_debt, b.other_long_term_liabilities)

total_liabilities64(b) ==
    AddDouble(total_current_liabilities64(b), total_long_term_liabilities64(b))

total_equity64(b) == AddDouble(AddDouble(b.common_stock, b.retained_earnings), b.other_equity)

\* With total_assets == 0 the method returns the int 0.
debt_to_assets_ratio64(b) ==
    IF total_assets64(b) = Zero64 THEN Num(0, 1)
    ELSE DivDouble(total_liabilities64(b), total_assets64(b))

\* Mutant: the equity ratio repeats the debt ratio.
equity_ratio64_of_liabilities(b) ==
    IF total_assets64(b) = Zero64 THEN Num(0, 1)
    ELSE DivDouble(total_liabilities64(b), total_assets64(b))

equity_ratio64(b) ==
    IF total_assets64(b) = Zero64 THEN Num(0, 1)
    ELSE DivDouble(total_equity64(b), total_assets64(b))

Total64(name, b) ==
    CASE name = "total_current_assets" -> total_current_assets64(b)
      [] name = "total_long_term_assets" -> total_long_term_assets64(b)
      [] name = "total_assets" -> total_assets64(b)
      [] name = "total_current_liabilities" -> total_current_liabilities64(b)
      [] name = "total_long_term_liabilities" -> total_long_term_liabilities64(b)
      [] name = "total_liabilities" -> total_liabilities64(b)
      [] name = "total_equity" -> total_equity64(b)

ShareNames == { "Debt to Assets Ratio", "Equity Ratio" }

Ratio64(name, b) ==
    CASE name = "Debt to Assets Ratio" -> debt_to_assets_ratio64(b)
      [] name = "Equity Ratio" -> equity_ratio64(b)

\* The float of the decimal literal n/100 (0.05 is 5/100 rounded once).
Cents(n) == DivDouble(FromInt(n), FromInt(100))

\* Sheets that balance as written: cash is the sum, in hundredths, of the
\* long-term debt and the common stock; the other line items are 0.
DecimalSheets ==
    { [f \in NumericFields |->
          CASE f = "cash" -> Cents(l + e)
            [] f = "long_term_debt" -> Cents(l)
            [] f = "common_stock" -> Cents(e)
            [] OTHER -> Zero64] @@ Metadata : l \in 0..MaxCents, e \in 0..MaxCents }

ReadTotal64(name) ==
    /\ pc = "constructed"
    /\ ret' = Ret(name, None, Total64(name, bs))
    /\ UNCHANGED <<pc, bs, analyzer>>

CallRatio64(name) ==
    /\ analyzer = "bs"
    /\ ret' = RetOfAnalyzer(name, Ratio64(name, bs))
    /\ UNCHANGED <<pc, bs, analyzer>>

NextBinary64 ==
    \/ \E data \in DecimalSheets : Construct(data)
    \/ NewAnalyzer
    \/ \E name \in TotalNames : ReadTotal64(name)
    \/ \E name \in ShareNames : CallRatio64(name)

SpecBinary64 == Init /\ [][NextBinary64]_vars

----------------------------------------------------------------------------
(* Properties *)

\* A numeric line item in half-cents, as an integer.
Units(v) == (v.n * 200) \div v.d

AssetUnits(b) ==
    Units(b.cash) + Units(b.accounts_receivable) + Units(b.inventory)
        + Units(b.other_current_assets) + Units(b.property_plant_equipment)
        + Units(b.intangible_assets) + Units(b.other_long_term_assets)

CurrentLiabilityUnits(b) ==
    Units(b.accounts_payable) + Units(b.short_term_debt) + Units(b.other_current_liabilities)

LiabilityUnits(b) ==
    CurrentLiabilityUnits(b) + Units(b.long_term_debt) + Units(b.other_long_term_liabilities)

EquityUnits(b) ==
    Units(b.common_stock) + Units(b.retained_earnings) + Units(b.other_equity)

\* |total assets - (total liabilities + total equity)| in half-cents.
ImbalanceUnits(b) ==
    LET diff == AssetUnits(b) - (LiabilityUnits(b) + EquityUnits(b))
    IN  IF diff < 0 THEN -diff ELSE diff

AllNumeric(b) == \A f \in NumericFields : IsNum(b[f])

NonNegative(b) == \A f \in NumericFields : IsNum(b[f]) /\ b[f].n >= 0

\* C1: verify_balance() returns True exactly when the absolute difference
\* between total assets and total liabilities plus total equity is below
\* 0.01 (two half-cents), and False otherwise.
C1_VerifyBalanceIffWithinTolerance ==
    (ret.op = "verify_balance" /\ AllNumeric(bs))
        => ret.val = Bool(ImbalanceUnits(bs) < 2)

\* C1 witness: a difference of exactly 0.01 has been judged not balanced.
C1_Witness ==
    /\ ret.op = "verify_balance"
    /\ ImbalanceUnits(bs) = 2
    /\ ret.val = Bool(FALSE)

\* C2: on a sheet of non-negative line items each derived total is the sum
\* of its parts.
C2_TotalsAreSumsOfParts ==
    NonNegative(bs) =>
        /\ ret.op = "total_current_assets" =>
              ret.val = Amount(Units(bs.cash) + Units(bs.accounts_receivable)
                                  + Units(bs.inventory) + Units(bs.other_current_assets))
        /\ ret.op = "total_assets" =>
              ret.val = Amount(Units(total_current_assets(bs))
                                  + Units(total_long_term_assets(bs)))
        /\ ret.op = "total_liabilities" =>
              ret.val = Amount(Units(total_current_liabilities(bs))
                                  + Units(total_long_term_liabilities(bs)))
        /\ ret.op = "total_equity" =>
              ret.val = Amount(Units(bs.common_stock) + Units(bs.retained_earnings)
                                  + Units(bs.other_equity))

\* C2 witness: total_current_assets was read on the sheet of
\* test_current_assets (four non-zero parts, 500 in all).
C2_Witness ==
    /\ ret.op = "total_current_assets"
    /\ bs.other_current_assets = Num(50, 1)
    /\ bs.inventory = Num(150, 1)
    /\ ret.val = Num(500, 1)

\* C3: with zero current liabilities the current, quick and cash ratios are
\* +infinity, and with zero total equity the debt-to-equity ratio is
\* +infinity, whatever the numerator.
C3_ZeroLiabilitySideDenominatorGivesInfinity ==
    AllNumeric(bs) =>
        /\ (ret.op \in {"Current Ratio", "Quick Ratio", "Cash Ratio"}
               /\ CurrentLiabilityUnits(bs) = 0) => ret.val = Inf
        /\ (ret.op = "Debt to Equity Ratio" /\ EquityUnits(bs) = 0) => ret.val = Inf

\* C3 witness: debt-to-equity returned +infinity with zero equity made of
\* non-zero parts and zero liabilities (numerator and denominator both zero).
C3_Witness ==
    /\ ret.op = "Debt to Equity Ratio"
    /\ AllNumeric(bs)
    /\ bs.common_stock # Num(0, 1)
    /\ EquityUnits(bs) = 0
    /\ LiabilityUnits(bs) = 0
    /\ ret.val = Inf

\* C4: with zero total assets the debt-to-assets, equity and long-term debt
\* ratios are 0, whatever the liabilities and equity.
C4_ZeroAssetsGivesZero ==
    (AllNumeric(bs) /\ AssetUnits(bs) = 0
        /\ ret.op \in {"Debt to Assets Ratio", "Equity Ratio", "Long-term Debt Ratio"})
        => ret.val = Num(0, 1)

\* C4 witness: debt-to-assets returned 0 on a sheet with no assets but with
\* liabilities and equity.
C4_Witness ==
    /\ ret.op = "Debt to Assets Ratio"
    /\ AllNumeric(bs)
    /\ AssetUnits(bs) = 0
    /\ LiabilityUnits(bs) > 0
    /\ EquityUnits(bs) > 0
    /\ ret.val = Num(0, 1)

\* The keys of get_all_ratios in the order of the dict literal.
RatioOrder ==
    << "Current Ratio", "Quick Ratio", "Cash Ratio", "Debt to Equity Ratio",
       "Debt to Assets Ratio", "Equity Ratio", "Working Capital", "Long-term Debt Ratio" >>

\* C5: get_all_ratios() returns exactly 8 entries, one per ratio in the
\* fixed order, each holding what the ratio's own method returns.
C5_AllRatiosEightInOrder ==
    (ret.op = "get_all_ratios" /\ AllNumeric(bs)) =>
        /\ ret.val.k = "dict"
        /\ Len(ret.val.items) = 8
        /\ \A i \in 1..8 :
              /\ ret.val.items[i].name = RatioOrder[i]
              /\ ret.val.items[i].value = Ratio(RatioOrder[i], bs)

\* C5 witness: the mapping was returned for a sheet with current liabilities
\* and equity, so that no entry is a zero-denominator sentinel.
C5_Witness ==
    /\ ret.op = "get_all_ratios"
    /\ AllNumeric(bs)
    /\ CurrentLiabilityUnits(bs) > 0
    /\ EquityUnits(bs) > 0
    /\ ret.val.k = "dict"
    /\ ret.val.items[2].value # ret.val.items[1].value

\* The threshold ladder of each ratio, ascending, and its bands: band i
\* below threshold i, the last band from the last threshold on.
BandTable(name) ==
    CASE name = "Current Ratio" ->
            [b |-> << "Poor - May struggle to meet short-term obligations",
                      "Below Average - Limited liquidity cushion",
                      "Good - Adequate liquidity",
                      "Excellent - Strong liquidity position",
                      "Very High - May indicate inefficient use of assets" >>,
             t |-> << Num(1, 1), Num(3, 2), Num(2, 1), Num(3, 1) >>]
      [] name = "Quick Ratio" ->
            [b |-> << "Poor - Liquidity concerns without inventory",
                      "Below Average - Some liquidity risk",
                      "Good - Solid liquidity",
                      "Excellent - Very strong liquidity" >>,
             t |-> << Num(1, 2), Num(1, 1), Num(3, 2) >>]
      [] name = "Cash Ratio" ->
            [b |-> << "Low - Limited immediate cash availability",
                      "Moderate - Reasonable cash position",
                      "High - Strong cash reserves" >>,
             t |-> << Num(1, 5), Num(1, 2) >>]
      [] name = "Debt to Equity Ratio" ->
            [b |-> << "Conservative - Low leverage, equity-financed",
                      "Moderate - Balanced leverage",
                      "High - Significant debt leverage",
                      "Very High - Heavy reliance on debt financing" >>,
             t |-> << Num(1, 2), Num(1, 1), Num(2, 1) >>]
      [] name = "Debt to Assets Ratio" ->
            [b |-> << "Low - Conservative debt levels",
                      "Moderate - Balanced capital structure",
                      "High - Significant debt burden",
                      "Very High - Heavy debt load" >>,
             t |-> << Num(3, 10), Num(1, 2), Num(7, 10) >>]
      [] name = "Equity Ratio" ->
            [b |-> << "Low - Heavy reliance on debt",
                      "Moderate - Balanced financing",
                      "Good - Strong equity base",
                      "Excellent - Conservative financing" >>,
             t |-> << Num(3, 10), Num(1, 2), Num(7, 10) >>]
      [] name = "Working Capital" ->
            [b |-> << "Negative - Short-term financial stress",
                      "Low - Limited working capital buffer",
                      "Moderate - Adequate working capital",
                      "Strong - Healthy working capital position" >>,
             t |-> << Num(0, 1), Num(100000, 1), Num(1000000, 1) >>]
      [] name = "Long-term Debt Ratio" ->
            [b |-> << "Low - Minimal long-term debt",
                      "Moderate - Reasonable long-term debt",
                      "High - Significant long-term obligations" >>,
             t |-> << Num(1, 5), Num(2, 5) >>]

\* value >= t on two numbers.
AtLeast(value, t) == value.n * t.d >= t.n * value.d

\* The band of the left-closed interval that holds value: one band up for
\* every threshold the value has reached.
BandOf(name, value) ==
    LET T == BandTable(name)
    IN  T.b[1 + Cardinality({i \in DOMAIN T.t : AtLeast(value, T.t[i])})]

\* C6: for each of the 8 ratio names interpret_ratio(name, value) returns
\* the band of the left-closed interval holding value: a value equal to a
\* threshold falls in the band above it.
C6_BandsAreLeftClosed ==
    (ret.op = "interpret_ratio" /\ ret.arg[1] \in RatioNames)
        => ret.val = Str(BandOf(ret.arg[1], ret.arg[2]))

\* C6 witness: a current ratio of exactly 1.0 was classified Below Average.
C6_Witness ==
    /\ ret.op = "interpret_ratio"
    /\ ret.arg = << "Current Ratio", Num(1, 1) >>
    /\ ret.val = Str("Below Average - Limited liquidity cushion")

\* C7: for a name that is not one of the 8 keys interpret_ratio returns the
\* literal "No interpretation available" as a normal result.
C7_UnknownNameGivesSentinel ==
    (ret.op = "interpret_ratio" /\ ret.arg[1] \notin RatioNames)
        => ret.val = Str("No interpretation available")

\* C7 witness: the spec's spelling "Debt-to-Equity", which is not a key, was
\* looked up with +infinity and answered with the sentinel.
C7_Witness ==
    /\ ret.op = "interpret_ratio"
    /\ ret.arg = << "Debt-to-Equity", Inf >>
    /\ ret.val = Str("No interpretation available")

\* C8: a construction that was given a non-numeric line item fails: a
\* constructor that has returned holds numbers only.
C8_NonNumericFailsAtConstruction ==
    ret.op = "BalanceSheet" => AllNumeric(bs)

\* The calls that only read the sheet.
ReadOps ==
    TotalNames \cup RatioNames
        \cup {"verify_balance", "get_all_ratios", "interpret_ratio", "generate_text_report",
              "_generate_insights", "analyze_balance_sheet"}

C10_RatiosAreTotal ==
    (AllNumeric(bs) /\ ret.op \in RatioNames \cup {"get_all_ratios"})
        => /\ ~Raised(ret.val)
           /\ ret.op \in RatioNames => IsNum(ret.val)
           /\ ret.op = "get_all_ratios" => ret.val.k = "dict"

\* C10 witness: get_all_ratios() returned its mapping on the all-zero sheet,
\* where every denominator is zero.
C10_Witness ==
    /\ ret.op = "get_all_ratios"
    /\ \A f \in NumericFields : bs[f] = Num(0, 1)
    /\ ret.val.k = "dict"

\* C11: on the sample sheet of main() total assets are 4,000,000, total
\* liabilities 2,400,000 and total equity 1,600,000, verify_balance() is
\* True, the current ratio is 1300000/600000 and interpret_ratio classifies
\* that value as Excellent.
C11_ReferenceSheet ==
    bs = SampleSheet =>
        /\ ret.op = "total_assets" => ret.val = Num(4000000, 1)
        /\ ret.op = "total_liabilities" => ret.val = Num(2400000, 1)
        /\ ret.op = "total_equity" => ret.val = Num(1600000, 1)
        /\ ret.op = "verify_balance" => ret.val = Bool(TRUE)
        /\ ret.op = "Current Ratio" => ret.val = Num(1300000, 600000)
        /\ (ret.op = "interpret_ratio" /\ ret.arg[1] = "Current Ratio") =>
              /\ ret.arg[2] = Num(1300000, 600000)
              /\ ret.val = Str("Excellent - Strong liquidity position")
        /\ ret.op = "get_all_ratios" =>
              Lookup(ret.val, "Current Ratio") = Num(1300000, 600000)

\* C11 witness: the current ratio of the sample sheet, 13/6, was classified
\* Excellent.
C11_Witness ==
    /\ bs = SampleSheet
    /\ ret.op = "interpret_ratio"
    /\ ret.arg = << "Current Ratio", Num(13, 6) >>
    /\ ret.val = Str("Excellent - Strong liquidity position")

\* The insights in the order they are listed, each with the ratio it reads
\* and the condition under which it is due: below or above the threshold t.
InsightRules ==
    << [name |-> "Current Ratio", text |-> "WARNING: Current ratio below 1 indicates potential liquidity issues", t |-> Num(1, 1), below |-> TRUE,
        amount |-> FALSE],
       [name |-> "Current Ratio", text |-> "High current ratio may indicate underutilized assets", t |-> Num(3, 1), below |-> FALSE,
        amount |-> FALSE],
       [name |-> "Debt to Equity Ratio", text |-> "High debt-to-equity ratio suggests significant financial leverage and risk", t |-> Num(2, 1), below |-> FALSE,
        amount |-> FALSE],
       [name |-> "Debt to Equity Ratio", text |-> "Conservative capital structure with low debt levels", t |-> Num(1, 2), below |-> TRUE,
        amount |-> FALSE],
       [name |-> "Working Capital", text |-> "CRITICAL: Negative working capital - immediate attention needed", t |-> Num(0, 1), below |-> TRUE,
        amount |-> FALSE],
       [name |-> "Working Capital", text |-> "Positive working capital of $ provides financial cushion", t |-> Num(0, 1), below |-> FALSE,
        amount |-> TRUE],
       [name |-> "Quick Ratio", text |-> "Quick ratio below 1 indicates potential challenges meeting short-term obligations", t |-> Num(1, 1), below |-> TRUE,
        amount |-> FALSE],
       [name |-> "Equity Ratio", text |-> "Strong equity position provides financial stability", t |-> Num(7, 10), below |-> FALSE,
        amount |-> FALSE],
       [name |-> "Equity Ratio", text |-> "Heavy reliance on debt financing increases financial risk", t |-> Num(3, 10), below |-> TRUE,
        amount |-> FALSE] >>

\* The rule's condition on the mapping: strictly below, or strictly above.
Due(rule, ratios) ==
    LET value == Lookup(ratios, rule.name)
    IN  IF rule.below THEN LtNum(value, rule.t) ELSE LtNum(rule.t, value)

\* The insights due for a mapping, in the order of the rules.
DueInsights(ratios) ==
    LET IsDue(rule) == Due(rule, ratios)
        due == SelectSeq(InsightRules, IsDue)
    IN  [i \in 1..Len(due) |->
            Line(due[i].text,
                 IF due[i].amount THEN Format(Lookup(ratios, due[i].name)) ELSE None)]

\* C12: given the ratio mapping, the insight function returns a list of 0
\* to 6 strings: exactly the insights whose condition holds (current ratio
\* < 1 or > 3, debt-to-equity > 2 or < 0.5, working capital < 0 or > 0,
\* quick ratio < 1, equity ratio > 0.7 or < 0.3) in the order liquidity,
\* leverage, working capital, quick ratio, equity, at most one per ratio and
\* none for a value on a threshold or between two.
C12_InsightsExactlyWhenDue ==
    ret.op = "_generate_insights" =>
        /\ ret.val.k = "list"
        /\ Len(ret.val.items) \in 0..6
        /\ ret.val.items = DueInsights(ret.arg)
        /\ \A name \in RatioNames :
              Cardinality({i \in DOMAIN ret.val.items :
                              \E j \in DOMAIN InsightRules :
                                  /\ InsightRules[j].name = name
                                  /\ InsightRules[j].text = ret.val.items[i].text}) <= 1

\* C12 witness: with every ratio on a threshold (current ratio 3,
\* debt-to-equity 2, working capital 0, quick ratio 1, equity ratio 0.7) the
\* list returned is empty.
C12_Witness ==
    /\ ret.op = "_generate_insights"
    /\ Lookup(ret.arg, "Current Ratio") = Num(3, 1)
    /\ Lookup(ret.arg, "Debt to Equity Ratio") = Num(2, 1)
    /\ Lookup(ret.arg, "Working Capital") = Num(0, 1)
    /\ Lookup(ret.arg, "Quick Ratio") = Num(1, 1)
    /\ Lookup(ret.arg, "Equity Ratio") = Num(7, 10)
    /\ ret.val.k = "list"
    /\ ret.val.items = << >>

\* The text of the report's status line.
StatusOf(report) ==
    LET i == CHOOSE j \in DOMAIN report.lines :
                 report.lines[j].text = "Balance Sheet Status: "
    IN  report.lines[i].arg.s

\* C13: a sheet that does not balance is reported, not rejected: it is
\* constructed, every ratio is computed, the report is produced with the
\* status NOT BALANCED exactly when the totals differ by 0.01 or more, and
\* analyze_balance_sheet prints its four warning lines and then the report.
C13_ImbalanceReportedNotRejected ==
    (pc = "constructed" /\ AllNumeric(bs)) =>
        /\ ret.op \in RatioNames => IsNum(ret.val)
        /\ ret.op = "get_all_ratios" => ret.val.k = "dict"
        /\ ret.op = "generate_text_report" =>
              /\ ret.val.k = "report"
              /\ StatusOf(ret.val) =
                    IF ImbalanceUnits(bs) >= 2 THEN "NOT BALANCED" ELSE "BALANCED"
        /\ ret.op = "analyze_balance_sheet" =>
              /\ ret.val.raised = None
              /\ Len(ret.val.prints) = IF ImbalanceUnits(bs) >= 2 THEN 5 ELSE 1
              /\ ImbalanceUnits(bs) >= 2 =>
                    ret.val.prints[1].text = "WARNING: Balance sheet does not balance!"
              /\ LET last == ret.val.prints[Len(ret.val.prints)].arg
                 IN  /\ last.k = "report"
                     /\ Len(last.lines) >= 28
                     /\ StatusOf(last) =
                           IF ImbalanceUnits(bs) >= 2 THEN "NOT BALANCED" ELSE "BALANCED"

\* C13 witness: analyze_balance_sheet ran on a sheet whose assets exceed
\* liabilities plus equity by 1.0: the warning came first and the report,
\* marked NOT BALANCED, last.
C13_Witness ==
    /\ ret.op = "analyze_balance_sheet"
    /\ AllNumeric(bs)
    /\ ImbalanceUnits(bs) = 200
    /\ Len(ret.val.prints) = 5
    /\ ret.val.prints[1].text = "WARNING: Balance sheet does not balance!"
    /\ ret.val.prints[5].arg.k = "report"
    /\ StatusOf(ret.val.prints[5].arg) = "NOT BALANCED"

\* What an analyzer built now over sheet b returns for the call op.
FreshAnalyzer(op, b) == IF op = "get_all_ratios" THEN get_all_ratios(b) ELSE Ratio(op, b)

HasInsight(list, text) == \E i \in DOMAIN list.items : list.items[i].text = text

\* The ratios whose interpreter is given +infinity, and the last band of each.
FinalBand ==
    [r \in {"Current Ratio", "Quick Ratio", "Cash Ratio", "Debt to Equity Ratio"} |->
        CASE r = "Current Ratio" -> "Very High - May indicate inefficient use of assets"
          [] r = "Quick Ratio" -> "Excellent - Very strong liquidity"
          [] r = "Cash Ratio" -> "High - Strong cash reserves"
          [] r = "Debt to Equity Ratio" -> "Very High - Heavy reliance on debt financing"]

\* The total a ratio divides by is zero on sheet b.
ZeroDenominator(r, b) ==
    IF r = "Debt to Equity Ratio" THEN EquityUnits(b) = 0
    ELSE CurrentLiabilityUnits(b) = 0

\* C15: the +infinity a ratio returns for a zero denominator stays
\* comparable: given to interpret_ratio it falls in the last band of the
\* ratio (Current Ratio Very High, Quick Ratio Excellent, Cash Ratio High,
\* Debt to Equity Ratio Very High), in the insights it counts as a current
\* ratio above 3 and a debt-to-equity ratio above 2, and nothing is raised.
C15_InfinityStaysComparable ==
    AllNumeric(bs) =>
        /\ (ret.op = "interpret_ratio" /\ ret.arg[1] \in DOMAIN FinalBand
              /\ ZeroDenominator(ret.arg[1], bs)) =>
              /\ ret.arg[2] = Inf
              /\ ret.val = Str(FinalBand[ret.arg[1]])
        /\ ret.op = "_generate_insights" =>
              /\ ret.val.k = "list"
              /\ ZeroDenominator("Current Ratio", bs) =>
                    /\ Lookup(ret.arg, "Current Ratio") = Inf
                    /\ HasInsight(ret.val, "High current ratio may indicate underutilized assets")
                    /\ ~HasInsight(ret.val, "WARNING: Current ratio below 1 indicates potential liquidity issues")
              /\ ZeroDenominator("Debt to Equity Ratio", bs) =>
                    /\ Lookup(ret.arg, "Debt to Equity Ratio") = Inf
                    /\ HasInsight(ret.val, "High debt-to-equity ratio suggests significant financial leverage and risk")
                    /\ ~HasInsight(ret.val, "Conservative capital structure with low debt levels")

\* C15 witness: the insights of a sheet with assets and long-term debt but no
\* current liabilities and no equity: both ratios are +infinity and both
\* high-ratio insights were given.
C15_Witness ==
    /\ ret.op = "_generate_insights"
    /\ AllNumeric(bs)
    /\ AssetUnits(bs) > 0
    /\ CurrentLiabilityUnits(bs) = 0
    /\ EquityUnits(bs) = 0
    /\ Lookup(ret.arg, "Current Ratio") = Inf
    /\ Lookup(ret.arg, "Debt to Equity Ratio") = Inf
    /\ HasInsight(ret.val, "High current ratio may indicate underutilized assets")
    /\ HasInsight(ret.val, "High debt-to-equity ratio suggests significant financial leverage and risk")

\* The report has a line interpreting a ratio with the band text.
HasBand(report, text) ==
    \E i \in DOMAIN report.lines :
        report.lines[i].text = "    -> " /\ report.lines[i].arg = Str(text)

\* C17: on a sheet with non-negative fields the current ratio is below 1
\* exactly when working capital is negative; so the insights have the
\* current-ratio WARNING exactly when they have the negative-working-capital
\* CRITICAL line, and the report interprets Current Ratio as Poor exactly
\* when it interprets Working Capital as Negative.
C17_LiquidityAgreesWithWorkingCapital ==
    NonNegative(bs) =>
        /\ ret.op = "get_all_ratios" =>
              (IsTrue(Lt(Lookup(ret.val, "Current Ratio"), Num(1, 1)))
                  <=> IsTrue(Lt(Lookup(ret.val, "Working Capital"), Num(0, 1))))
        /\ (ret.op = "get_all_ratios"
              /\ CurrentLiabilityUnits(bs) = 0) =>
              /\ Lookup(ret.val, "Current Ratio") = Inf
              /\ Lookup(ret.val, "Working Capital").n >= 0
        /\ ret.op = "_generate_insights" =>
              (HasInsight(ret.val, "WARNING: Current ratio below 1 indicates potential liquidity issues")
                  <=> HasInsight(ret.val, "CRITICAL: Negative working capital - immediate attention needed"))
        /\ ret.op = "generate_text_report" =>
              (HasBand(ret.val, "Poor - May struggle to meet short-term obligations")
                  <=> HasBand(ret.val, "Negative - Short-term financial stress"))

\* C17 witness: the insights of a sheet whose current liabilities exceed its
\* current assets, which are not zero: the WARNING and the CRITICAL line
\* were both given.
C17_Witness ==
    /\ ret.op = "_generate_insights"
    /\ NonNegative(bs)
    /\ Lookup(ret.arg, "Current Ratio") = Num(1, 2)
    /\ Lookup(ret.arg, "Working Capital") = Num(-1, 1)
    /\ HasInsight(ret.val, "WARNING: Current ratio below 1 indicates potential liquidity issues")
    /\ HasInsight(ret.val, "CRITICAL: Negative working capital - immediate attention needed")

\* 1.0 and 2^-52, the distance from 1.0 to the next double.
One == FromInt(1)
Epsilon == Double(0, << Lead, 0 >>, -104)

\* total_assets == total_liabilities + total_equity, as floats.
BalancesExactly(b) ==
    total_assets64(b) = AddDouble(total_liabilities64(b), total_equity64(b))

PositiveAssets(b) == LtDouble(Zero64, total_assets64(b))

NoNegativeField(b) == \A f \in NumericFields : b[f].neg = 0

\* debt + equity as Python adds them: two floats, or the two ints 0.
SumOfShares(debt, equity) ==
    IF IsDouble(debt) /\ IsDouble(equity) THEN AddDouble(debt, equity)
    ELSE Add(debt, equity)

\* abs(a - 1) <= 2^-52
WithinEpsilonOfOne(a) ==
    IsDouble(a) /\ ~LtDouble(Epsilon, AbsDouble(AddDouble(a, NegDouble(One))))

\* C16 as stated: on every sheet with total_assets > 0 that equals
\* total_liabilities + total_equity exactly, debt_to_assets_ratio() +
\* equity_ratio() = 1; with total_assets = 0 both are 0.  The two calls are
\* two consecutive steps on the same sheet.
C16_SharesSumToOne ==
    [][/\ (/\ ret.op = "Debt to Assets Ratio" /\ ret'.op = "Equity Ratio"
           /\ bs' = bs /\ PositiveAssets(bs) /\ BalancesExactly(bs)) =>
              SumOfShares(ret.val, ret'.val) = One
       /\ (ret'.op \in ShareNames /\ total_assets64(bs') = Zero64) =>
              ret'.val = Num(0, 1)]_vars

\* C16, amended: on every sheet without a negative field, with
\* total_assets > 0 equal to total_liabilities + total_equity exactly,
\* debt_to_assets_ratio() + equity_ratio() is 1 up to the rounding of the
\* two divisions and of the sum, abs(sum - 1) <= 2^-52; with
\* total_assets = 0 both are 0, and so is their sum.
C16_SharesSumToOneRounded ==
    [][/\ (/\ ret.op = "Debt to Assets Ratio" /\ ret'.op = "Equity Ratio"
           /\ bs' = bs /\ NoNegativeField(bs) /\ PositiveAssets(bs)
           /\ BalancesExactly(bs)) =>
              WithinEpsilonOfOne(SumOfShares(ret.val, ret'.val))
       /\ (ret'.op \in ShareNames /\ total_assets64(bs') = Zero64) =>
              ret'.val = Num(0, 1)
       /\ (/\ ret.op = "Debt to Assets Ratio" /\ ret'.op = "Equity Ratio"
           /\ bs' = bs /\ total_assets64(bs) = Zero64) =>
              SumOfShares(ret.val, ret'.val) = Num(0, 1)]_vars

\* C16 witness: cash 0.05 against long-term debt 0.01 and common stock 0.04:
\* 0.05 == 0.01 + 0.04 holds exactly, and equity_ratio() has returned
\* 0.04 / 0.05, which added to 0.01 / 0.05 gives 0.9999999999999999, the
\* double just below 1.
C16_Witness ==
    /\ ret.op = "Equity Ratio"
    /\ bs.cash = Cents(5)
    /\ bs.long_term_debt = Cents(1)
    /\ bs.common_stock = Cents(4)
    /\ BalancesExactly(bs)
    /\ SumOfShares(debt_to_assets_ratio64(bs), ret.val)
           = Double(0, << Carry - 1, Limb - 1 >>, -53)

====
